---------------------------- MODULE Spec2Model ----------------------------
(***************************************************************************)
(* Model of paginate_epub.py: process_file on one XHTML document.          *)
(*                                                                         *)
(* The lxml tree is an arena (a sequence of element records, node id =     *)
(* index).  Strings (ids, text runs) are sequences of one-character        *)
(* strings, so that parsing, formatting and word counting are computed.    *)
(*                                                                         *)
(* Source lines 139-146 are mis-indented in the file (the body of the      *)
(* second threshold test is not indented).  The two repairs, nesting the   *)
(* body under line 139 or moving line 139 out of `if el.tail:', behave     *)
(* alike: after lines 132-136 the count is below the interval unless the   *)
(* element has no parent, and then lines 141-146 do nothing.               *)
(***************************************************************************)
EXTENDS Integers, Sequences, FiniteSets, TLC

VARIABLES
    tree,        \* the parsed document: arena of element records
    file,        \* content of the file on disk (serialized token sequence)
    input,       \* the tree as parsed, kept for comparison
    interval,    \* process_file's interval parameter
    pc,          \* position inside process_file
    outcome,     \* the tag of the line process_file printed
    first,       \* node id of the first marker (0: None)
    is_roman,    \* numbering scheme of the first marker
    base,        \* value parsed from the first marker
    body,        \* node id of the body element (0: None)
    todo,        \* rest of list(body.iter()) still to visit
    word_count,  \* running word count
    page_index,  \* next marker value
    inserted,    \* node ids created by make_span, in creation order
    counted      \* text runs whose words were added to word_count

vars == <<tree, file, input, interval, pc, outcome, first, is_roman, base,
          body, todo, word_count, page_index, inserted, counted>>

-----------------------------------------------------------------------------
(* Bounds of the model *)

\* number of elements in a parsed document
MaxNodes == 3

\* number of non-empty text runs (text or tail) in a parsed document
MaxRuns == 2

-----------------------------------------------------------------------------
(* Strings *)

None == -1

PREFIX == <<"p", "g", "e", "p", "u", "b", "i", "d">>

DigitChars == <<"0", "1", "2", "3", "4", "5", "6", "7", "8", "9">>

DigitSet == {DigitChars[i] : i \in 1..10}

DigitVal(c) == (CHOOSE i \in 1..10 : DigitChars[i] = c) - 1

startswith(s, p) == Len(s) >= Len(p) /\ SubSeq(s, 1, Len(p)) = p

\* str.isdigit: non-empty and all characters are digits
isdigit(s) == Len(s) > 0 /\ \A i \in 1..Len(s) : s[i] \in DigitSet

RECURSIVE int(_)
int(s) == IF s = <<>> THEN 0
          ELSE int(SubSeq(s, 1, Len(s) - 1)) * 10 + DigitVal(s[Len(s)])

RECURSIVE DecimalDigits(_)
DecimalDigits(n) == IF n < 10 THEN <<DigitChars[n + 1]>>
                    ELSE DecimalDigits(n \div 10) \o <<DigitChars[(n % 10) + 1]>>

RECURSIVE PadLeft(_, _)
PadLeft(s, width) == IF Len(s) >= width THEN s ELSE PadLeft(<<"0">> \o s, width)

\* f'{n:05d}'
Format05d(n) == PadLeft(DecimalDigits(n), 5)

numerals == <<
    [value |-> 1000, numeral |-> <<"m">>], [value |-> 900, numeral |-> <<"c", "m">>],
    [value |-> 500, numeral |-> <<"d">>], [value |-> 400, numeral |-> <<"c", "d">>],
    [value |-> 100, numeral |-> <<"c">>], [value |-> 90, numeral |-> <<"x", "c">>],
    [value |-> 50, numeral |-> <<"l">>], [value |-> 40, numeral |-> <<"x", "l">>],
    [value |-> 10, numeral |-> <<"x">>], [value |-> 9, numeral |-> <<"i", "x">>],
    [value |-> 5, numeral |-> <<"v">>], [value |-> 4, numeral |-> <<"i", "v">>],
    [value |-> 1, numeral |-> <<"i">>] >>

RECURSIVE RomanFrom(_, _)
RomanFrom(n, k) ==
    IF k > Len(numerals) THEN <<>>
    ELSE IF n >= numerals[k].value
         THEN numerals[k].numeral \o RomanFrom(n - numerals[k].value, k)
         ELSE RomanFrom(n, k + 1)

int_to_roman(n) == RomanFrom(n, 1)

lower(c) == CASE c = "I" -> "i" [] c = "V" -> "v" [] c = "X" -> "x" [] OTHER -> c

roman_map == <<
    <<"i">>, <<"i", "i">>, <<"i", "i", "i">>, <<"i", "v">>, <<"v">>,
    <<"v", "i">>, <<"v", "i", "i">>, <<"v", "i", "i", "i">>, <<"i", "x">>,
    <<"x">>, <<"x", "i">>, <<"x", "i", "i">>, <<"x", "i", "i", "i">>,
    <<"x", "i", "v">>, <<"x", "v">> >>

roman_to_int(s) ==
    LET l == [i \in 1..Len(s) |-> lower(s[i])]
    IN  IF \E v \in 1..Len(roman_map) : roman_map[v] = l
        THEN CHOOSE v \in 1..Len(roman_map) : roman_map[v] = l
        ELSE None

WordChars == {"w", "_"} \cup DigitSet

\* len(re.findall(r'\b\w+\b', text)): the number of maximal runs of word characters
count_words(text) ==
    Cardinality({i \in 1..Len(text) :
                    /\ text[i] \in WordChars
                    /\ (i = 1 \/ text[i - 1] \notin WordChars)})

-----------------------------------------------------------------------------
(* The element tree (lxml) *)

NoNode == 0

\* etree.Element / a parsed element
Element(ns, local, id, text, tail, parent, children) ==
    [ns |-> ns, local |-> local, id |-> id, text |-> text, tail |-> tail,
     parent |-> parent, children |-> children]

\* el.tag: '{namespace}local' for a qualified element, 'local' otherwise
tag(e) == <<e.ns, e.local>>

\* etree.QName(el).localname
localname(e) == e.local

lowerName(s) == CASE s = "A" -> "a" [] s = "UL" -> "ul" [] s = "OL" -> "ol"
                  [] s = "MENU" -> "menu" [] OTHER -> s

getparent(t, el) == t[el].parent

RECURSIVE IterFrom(_, _, _)
RECURSIVE iter(_, _)
\* el.iter(): the element, then its descendants, in document order
iter(t, el) == <<el>> \o IterFrom(t, t[el].children, 1)
IterFrom(t, kids, k) ==
    IF k > Len(kids) THEN <<>> ELSE iter(t, kids[k]) \o IterFrom(t, kids, k + 1)

\* parent.index(el)
index(t, parent, el) == CHOOSE k \in 1..Len(t[parent].children) : t[parent].children[k] = el

InsertAt(s, k, x) == SubSeq(s, 1, k - 1) \o <<x>> \o SubSeq(s, k, Len(s))

RemoveAt(s, k) == SubSeq(s, 1, k - 1) \o SubSeq(s, k + 1, Len(s))

\* parent.remove(el): the element leaves the tree and takes its tail with it
remove(t, parent, el) ==
    [t EXCEPT ![parent].children = RemoveAt(@, index(t, parent, el)),
              ![el].parent = NoNode]

\* el.addprevious(new): new becomes the sibling immediately before el
addprevious(t, el, new) ==
    LET p == t[el].parent
        n == Len(t) + 1
    IN  [Append(t, [new EXCEPT !.parent = p])
            EXCEPT ![p].children = InsertAt(@, index(t, p, el), n)]

\* parent.insert(k, new), k counted from 0: new is placed before the child
\* now at position k, that is after the tail of the child before it
insert(t, parent, k, new) ==
    LET n == Len(t) + 1
    IN  [Append(t, [new EXCEPT !.parent = parent])
            EXCEPT ![parent].children = InsertAt(@, k + 1, n)]

hasMarkerId(e) == startswith(e.id, PREFIX)

RECURSIVE RemoveEach(_, _, _)
\* for el in list(root.iter()): if <test>: el.getparent().remove(el)
RemoveEach(t, els, keep) ==
    IF els = <<>> THEN t
    ELSE LET el == Head(els)
         IN  IF tag(t[el]) = <<"", "span">> /\ el # keep /\ hasMarkerId(t[el])
             THEN RemoveEach(remove(t, getparent(t, el), el), Tail(els), keep)
             ELSE RemoveEach(t, Tail(els), keep)

strip_pgepubid(t) == RemoveEach(t, iter(t, 1), NoNode)

IsMarkerSpan(e) == localname(e) = "span" /\ hasMarkerId(e)

RECURSIVE FirstMarkerIn(_, _)
FirstMarkerIn(t, els) ==
    IF els = <<>> THEN NoNode
    ELSE IF IsMarkerSpan(t[Head(els)]) THEN Head(els) ELSE FirstMarkerIn(t, Tail(els))

find_first_pgepubid(t) == FirstMarkerIn(t, iter(t, 1))

RECURSIVE FirstBodyIn(_, _)
FirstBodyIn(t, els) ==
    IF els = <<>> THEN NoNode
    ELSE IF localname(t[Head(els)]) = "body" THEN Head(els) ELSE FirstBodyIn(t, Tail(els))

\* next((el for el in root.iter() if etree.QName(el).localname == "body"), None)
find_body(t) == FirstBodyIn(t, iter(t, 1))

\* is_inside_anchor without the walk up the ancestors
IsAnchorElement(t, el) ==
    el # NoNode /\ lowerName(localname(t[el])) = "a"

RECURSIVE is_inside_anchor(_, _)
is_inside_anchor(t, el) ==
    IF el = NoNode THEN FALSE
    ELSE IF lowerName(localname(t[el])) = "a" THEN TRUE
    ELSE is_inside_anchor(t, getparent(t, el))

ListContainers == {"ul", "ol", "menu"}

make_span(roman, n) ==
    Element("", "span",
            IF roman THEN PREFIX \o <<"0", "0", "0">> \o int_to_roman(n)
                     ELSE PREFIX \o Format05d(n),
            <<>>, <<>>, NoNode, <<>>)

-----------------------------------------------------------------------------
(* tree.write: the document as a sequence of tokens; adjacent character    *)
(* data is one token, as it is one stretch of bytes in the file            *)

Tok(k, e, s) == [k |-> k, ns |-> e.ns, local |-> e.local, id |-> e.id, s |-> s]

TextTok(s) == [k |-> "text", ns |-> "", local |-> "", id |-> <<>>, s |-> s]

Join(a, b) ==
    IF a # <<>> /\ b # <<>> /\ a[Len(a)].k = "text" /\ b[1].k = "text"
    THEN SubSeq(a, 1, Len(a) - 1) \o <<TextTok(a[Len(a)].s \o b[1].s)>> \o Tail(b)
    ELSE a \o b

Chars(s) == IF s = <<>> THEN <<>> ELSE <<TextTok(s)>>

RECURSIVE SerializeKids(_, _, _)
RECURSIVE SerializeEl(_, _)
SerializeEl(t, el) ==
    Join(Join(Join(<<Tok("start", t[el], <<>>)>>, Chars(t[el].text)),
              SerializeKids(t, t[el].children, 1)),
         <<Tok("end", t[el], <<>>)>>)
SerializeKids(t, kids, k) ==
    IF k > Len(kids) THEN <<>>
    ELSE Join(Join(SerializeEl(t, kids[k]), Chars(t[kids[k]].tail)),
              SerializeKids(t, kids, k + 1))

write(t) == SerializeEl(t, 1)

-----------------------------------------------------------------------------
(* The documents process_file is run on *)

\* process_file(path, interval=200); main passes no interval
DefaultInterval == 200

\* n words separated by single spaces
Words(n) == [i \in 1..(2 * n - 1) |-> IF i % 2 = 1 THEN "w" ELSE " "]

\* an interval small enough to be reached by short runs
SmallInterval == 3

Intervals == {SmallInterval, DefaultInterval}

\* runs below the interval, of exactly the interval, and of twice the interval
Texts(iv) == {Words(iv - 1), Words(iv), Words(2 * iv)}

Namespaces == {"", "http://www.w3.org/1999/xhtml"}

RootNames == {"html", "body"}

ChildNames == {"body", "p", "a", "ul", "span"}

\* ids of the first marker: bare, decimal, the roman form make_span writes,
\* a bare roman numeral, and a suffix that is no numeral
BareId == PREFIX

DecimalId == PREFIX \o <<"0", "0", "0", "0", "1">>

RomanId == PREFIX \o <<"i", "i">>

PaddedRomanId == PREFIX \o <<"0", "0", "0", "x", "i", "i">>

FirstIds == {BareId, DecimalId, RomanId, PaddedRomanId, PREFIX \o <<"z">>}

\* id of every marker after the first
OtherId == PREFIX \o <<"0", "0", "0", "0", "7">>

\* depths of the elements listed in document order
DepthSeqs(n) ==
    {d \in [1..n -> 0..(n - 1)] :
        /\ d[1] = 0
        /\ \A i \in 2..n : d[i] >= 1 /\ d[i] <= d[i - 1] + 1}

ParentIn(d, i) ==
    IF i = 1 THEN NoNode
    ELSE CHOOSE j \in 1..(i - 1) :
            d[j] = d[i] - 1 /\ \A k \in (j + 1)..(i - 1) : d[k] >= d[i]

RECURSIVE SortedSeq(_)
SortedSeq(S) ==
    IF S = {} THEN <<>>
    ELSE LET m == CHOOSE x \in S : \A y \in S : x <= y
         IN  <<m>> \o SortedSeq(S \ {m})

ChildrenIn(d, n, i) == SortedSeq({j \in 2..n : ParentIn(d, j) = i})

NameSeqs(n) ==
    {nm \in [1..n -> RootNames \cup ChildNames] :
        /\ nm[1] \in RootNames
        /\ \A i \in 2..n : nm[i] \in ChildNames
        /\ Cardinality({i \in 1..n : nm[i] = "body"}) <= 1}

RunPositions(n) == ((1..n) \X {"text"}) \cup ((2..n) \X {"tail"})

RunSets(n) == {R \in SUBSET RunPositions(n) : Cardinality(R) <= MaxRuns}

RunOf(R, w, pos) == IF pos \in R THEN w ELSE <<>>

\* the document of shape d and names nm whose runs R all hold the text w
Document(n, d, nm, ns, fid, R, w) ==
    LET spans == {i \in 1..n : nm[i] = "span"}
        firstSpan == CHOOSE i \in spans : \A j \in spans : i <= j
    IN  [i \in 1..n |->
            Element(ns, nm[i],
                    IF nm[i] = "span"
                    THEN (IF i = firstSpan THEN fid ELSE OtherId)
                    ELSE <<>>,
                    RunOf(R, w, <<i, "text">>),
                    RunOf(R, w, <<i, "tail">>),
                    ParentIn(d, i),
                    ChildrenIn(d, n, i))]

\* The documents enumerated.  Text is left out where process_file returns
\* before reading any (no marker, unparsable numeral, no body); a stripped
\* document has one run; the roman scheme and the default interval are run on
\* unqualified documents, the default interval on a single run.
Enumerated(n, nm, ns, fid, iv, R) ==
    LET names == {nm[i] : i \in 1..n}
    IN  /\ "span" \notin names =>
                fid = BareId /\ ns = "" /\ R = {} /\ iv = SmallInterval
        /\ fid \notin {BareId, DecimalId, RomanId} => R = {} /\ iv = SmallInterval
        /\ fid = BareId => Cardinality(R) <= 1 /\ iv = SmallInterval
        /\ fid # BareId /\ "body" \notin names => R = {} /\ iv = SmallInterval
        /\ fid = RomanId => ns = ""
        /\ iv = DefaultInterval => Cardinality(R) = 1 /\ fid = DecimalId /\ ns = ""

Init ==
    /\ \E n \in 1..MaxNodes :
       \E d \in DepthSeqs(n), nm \in NameSeqs(n), ns \in Namespaces,
          fid \in FirstIds, iv \in Intervals, R \in RunSets(n) :
          /\ Enumerated(n, nm, ns, fid, iv, R)
          /\ interval = iv
          /\ \E w \in (IF R = {} THEN {<<>>} ELSE Texts(iv)) :
                tree = Document(n, d, nm, ns, fid, R, w)
    /\ input = tree
    /\ file = write(tree)
    /\ pc = "scan"
    /\ outcome = "NONE"
    /\ first = NoNode
    /\ is_roman = FALSE
    /\ base = 0
    /\ body = NoNode
    /\ todo = <<>>
    /\ word_count = 0
    /\ page_index = 0
    /\ inserted = <<>>
    /\ counted = <<>>

-----------------------------------------------------------------------------
(* process_file, lines 84-152 *)

first_id(t, el) == t[el].id

\* first_id[8:]
suffix(id) == SubSeq(id, Len(PREFIX) + 1, Len(id))

Finish(tag_) ==
    /\ pc' = "done"
    /\ outcome' = tag_

\* lines 84-87: no marker span, the file is skipped
ScanSkip ==
    /\ pc = "scan"
    /\ find_first_pgepubid(tree) = NoNode
    /\ Finish("SKIP")
    /\ UNCHANGED <<tree, file, input, interval, first, is_roman, base, body, todo,
                   word_count, page_index, inserted, counted>>

\* lines 89-95: the first marker is the bare prefix, strip and write
ScanStrip ==
    /\ pc = "scan"
    /\ find_first_pgepubid(tree) # NoNode
    /\ first_id(tree, find_first_pgepubid(tree)) = PREFIX
    /\ first' = find_first_pgepubid(tree)
    /\ tree' = strip_pgepubid(tree)
    /\ file' = write(tree')
    /\ Finish("STRIP")
    /\ UNCHANGED <<input, interval, is_roman, base, body, todo, word_count,
                   page_index, inserted, counted>>

\* lines 97-107: the suffix is neither decimal nor in roman_map
ScanError ==
    /\ pc = "scan"
    /\ find_first_pgepubid(tree) # NoNode
    /\ LET id == first_id(tree, find_first_pgepubid(tree))
       IN  /\ id # PREFIX
           /\ ~isdigit(suffix(id))
           /\ roman_to_int(suffix(id)) = None
    /\ first' = find_first_pgepubid(tree)
    /\ is_roman' = TRUE
    /\ base' = None
    /\ Finish("ERROR_NUMERAL")
    /\ UNCHANGED <<tree, file, input, interval, body, todo, word_count, page_index,
                   inserted, counted>>

\* lines 97-104: the base value and the scheme
ScanContinue ==
    /\ pc = "scan"
    /\ find_first_pgepubid(tree) # NoNode
    /\ LET id == first_id(tree, find_first_pgepubid(tree))
       IN  /\ id # PREFIX
           /\ ~(~isdigit(suffix(id)) /\ roman_to_int(suffix(id)) = None)
           /\ is_roman' = ~isdigit(suffix(id))
           /\ base' = IF isdigit(suffix(id)) THEN int(suffix(id))
                      ELSE roman_to_int(suffix(id))
    /\ first' = find_first_pgepubid(tree)
    /\ pc' = "remove"
    /\ UNCHANGED <<tree, file, input, interval, outcome, body, todo, word_count,
                   page_index, inserted, counted>>

\* lines 109-112: remove all other spans
RemoveOthers ==
    /\ pc = "remove"
    /\ tree' = RemoveEach(tree, iter(tree, 1), first)
    /\ pc' = "body"
    /\ UNCHANGED <<file, input, interval, outcome, first, is_roman, base, body, todo,
                   word_count, page_index, inserted, counted>>

\* lines 114-118 with the tree written before the return
MissingBodyWrites ==
    /\ pc = "body"
    /\ find_body(tree) = NoNode
    /\ file' = write(tree)
    /\ Finish("ERROR_BODY")
    /\ UNCHANGED <<tree, input, interval, first, is_roman, base, body, todo,
                   word_count, page_index, inserted, counted>>

\* lines 114-118: no body element
MissingBody ==
    /\ pc = "body"
    /\ find_body(tree) = NoNode
    /\ Finish("ERROR_BODY")
    /\ UNCHANGED <<tree, file, input, interval, first, is_roman, base, body, todo,
                   word_count, page_index, inserted, counted>>

\* lines 114-127: the body is found, the walk starts on list(body.iter())
FindBody ==
    /\ pc = "body"
    /\ find_body(tree) # NoNode
    /\ body' = find_body(tree)
    /\ todo' = iter(tree, body')
    /\ word_count' = 0
    /\ page_index' = base + 1
    /\ pc' = "walk"
    /\ UNCHANGED <<tree, file, input, interval, outcome, first, is_roman, base,
                   inserted, counted>>

\* lines 130-136 without `page_index += 1'
TextStepSameIndex(t, el, wc, pi, iv, roman) ==
    LET wc1 == IF t[el].text # <<>> THEN wc + count_words(t[el].text) ELSE wc
        ins == wc1 >= iv /\ getparent(t, el) # NoNode
    IN  [tree |-> IF ins THEN addprevious(t, el, make_span(roman, pi)) ELSE t,
         word_count |-> IF ins THEN 0 ELSE wc1,
         page_index |-> pi,
         made |-> IF ins THEN <<Len(t) + 1>> ELSE <<>>,
         counted |-> IF t[el].text # <<>> THEN <<<<el, "text">>>> ELSE <<>>]

\* lines 130-136 without `word_count = 0'
TextStepKeepsCount(t, el, wc, pi, iv, roman) ==
    LET wc1 == IF t[el].text # <<>> THEN wc + count_words(t[el].text) ELSE wc
        ins == wc1 >= iv /\ getparent(t, el) # NoNode
    IN  [tree |-> IF ins THEN addprevious(t, el, make_span(roman, pi)) ELSE t,
         word_count |-> wc1,
         page_index |-> IF ins THEN pi + 1 ELSE pi,
         made |-> IF ins THEN <<Len(t) + 1>> ELSE <<>>,
         counted |-> IF t[el].text # <<>> THEN <<<<el, "text">>>> ELSE <<>>]

\* lines 130-136: the element's text, and a marker before the element
TextStep(t, el, wc, pi, iv, roman) ==
    LET wc1 == IF t[el].text # <<>> THEN wc + count_words(t[el].text) ELSE wc
        ins == wc1 >= iv /\ getparent(t, el) # NoNode
    IN  [tree |-> IF ins THEN addprevious(t, el, make_span(roman, pi)) ELSE t,
         word_count |-> IF ins THEN 0 ELSE wc1,
         page_index |-> IF ins THEN pi + 1 ELSE pi,
         made |-> IF ins THEN <<Len(t) + 1>> ELSE <<>>,
         counted |-> IF t[el].text # <<>> THEN <<<<el, "text">>>> ELSE <<>>]

\* lines 137-146: the element's tail, and a marker after it
TailStep(t, el, wc, pi, iv, roman) ==
    LET parent == getparent(t, el)
        wc1 == IF t[el].tail # <<>> THEN wc + count_words(t[el].tail) ELSE wc
        ins == /\ t[el].tail # <<>>
               /\ wc1 >= iv
               /\ parent # NoNode
               /\ lowerName(localname(t[parent])) \notin ListContainers
    IN  [tree |-> IF ins
                  THEN insert(t, parent, (index(t, parent, el) - 1) + 1,
                              make_span(roman, pi))
                  ELSE t,
         word_count |-> IF ins THEN 0 ELSE wc1,
         page_index |-> IF ins THEN pi + 1 ELSE pi,
         made |-> IF ins THEN <<Len(t) + 1>> ELSE <<>>,
         counted |-> IF t[el].tail # <<>> THEN <<<<el, "tail">>>> ELSE <<>>]

\* lines 127-146: one iteration of the placement loop
Visit ==
    /\ pc = "walk"
    /\ todo # <<>>
    /\ LET el == Head(todo)
       IN  IF is_inside_anchor(tree, el)
           THEN UNCHANGED <<tree, word_count, page_index, inserted, counted>>
           ELSE LET a == TextStep(tree, el, word_count, page_index, interval, is_roman)
                    b == TailStep(a.tree, el, a.word_count, a.page_index, interval,
                                  is_roman)
                IN  /\ tree' = b.tree
                    /\ word_count' = b.word_count
                    /\ page_index' = b.page_index
                    /\ inserted' = inserted \o a.made \o b.made
                    /\ counted' = counted \o a.counted \o b.counted
    /\ todo' = Tail(todo)
    /\ UNCHANGED <<file, input, interval, pc, outcome, first, is_roman, base, body>>

\* lines 148-152: the placement pass is complete, the file is written
Write ==
    /\ pc = "walk"
    /\ todo = <<>>
    /\ file' = write(tree)
    /\ Finish("ADD")
    /\ UNCHANGED <<tree, input, interval, first, is_roman, base, body, todo,
                   word_count, page_index, inserted, counted>>

Next ==
    \/ ScanSkip
    \/ ScanStrip
    \/ ScanError
    \/ ScanContinue
    \/ RemoveOthers
    \/ MissingBody
    \/ FindBody
    \/ Visit
    \/ Write

Spec == Init /\ [][Next]_vars

-----------------------------------------------------------------------------
(* Vocabulary of the properties *)

Range(s) == {s[i] : i \in 1..Len(s)}

\* elements of the document, detached ones left out
InTree(t) == Range(iter(t, 1))

RECURSIVE Ancestors(_, _)
\* the proper ancestors of an element
Ancestors(t, el) ==
    IF t[el].parent = NoNode THEN {}
    ELSE {t[el].parent} \cup Ancestors(t, t[el].parent)

Markers(t) == {n \in InTree(t) : hasMarkerId(t[n])}

Finished(tag_) == pc = "done" /\ outcome = tag_

\* the non-empty runs of a set of elements: texts, and tails of all but `top'
RunsOf(t, els, top) ==
    {<<n, "text">> : n \in {m \in els : t[m].text # <<>>}}
        \cup {<<n, "tail">> : n \in {m \in els \ {top} : t[m].tail # <<>>}}

\* a run lies outside all anchors: a text when neither its element nor an
\* ancestor is an anchor, a tail when no ancestor of its element is one
OutsideAnchors(t, run) ==
    LET around == IF run[2] = "text" THEN {run[1]} \cup Ancestors(t, run[1])
                  ELSE Ancestors(t, run[1])
    IN  \A a \in around : localname(t[a]) # "a"

TimesCounted(run) == Cardinality({i \in 1..Len(counted) : counted[i] = run})

\* the ids the documentation gives for a value: five decimal digits, or
\* "000" and the lowercase roman numeral (table of lines 53-55)
DocumentedId(roman, v) ==
    IF roman THEN PREFIX \o <<"0", "0", "0">> \o roman_map[v]
    ELSE PREFIX \o [i \in 1..5 |->
                      DigitChars[((v \div (10 ^ (5 - i))) % 10) + 1]]

RECURSIVE KeptKids(_, _, _)
RECURSIVE KeptEl(_, _)
\* the document with every marker span taken out and all other content,
\* the text after each marker included, left where it is
KeptEl(t, el) ==
    Join(Join(Join(<<Tok("start", t[el], <<>>)>>, Chars(t[el].text)),
              KeptKids(t, t[el].children, 1)),
         <<Tok("end", t[el], <<>>)>>)
KeptKids(t, kids, k) ==
    IF k > Len(kids) THEN <<>>
    ELSE Join(Join(IF IsMarkerSpan(t[kids[k]]) THEN <<>> ELSE KeptEl(t, kids[k]),
                   Chars(t[kids[k]].tail)),
              KeptKids(t, kids, k + 1))

-----------------------------------------------------------------------------
(* Properties *)

\* C1: after a Continue run the first-found marker is in the tree with its
\* id and text as parsed, it is the only element carrying that id, and every
\* other element whose id starts with the prefix was inserted by this run.
OnlyFirstAndInsertedMarkers ==
    Finished("ADD") =>
        /\ first \in InTree(tree)
        /\ tree[first].id = input[first].id
        /\ tree[first].text = input[first].text
        /\ tree[first].tail = input[first].tail
        /\ {n \in Markers(tree) : tree[n].id = input[first].id} = {first}
        /\ Markers(tree) \subseteq {first} \cup Range(inserted)

\* C2: after a StripOnly run no element has an id starting with the prefix,
\* and the file is the input with the marker spans taken out and nothing
\* else changed, the text after each removed marker included.
StripKeepsAllOtherContent ==
    Finished("STRIP") =>
        /\ Markers(tree) = {}
        /\ file = KeptEl(input, 1)

\* C3: no marker inserted by the placement loop has an ancestor whose local
\* name is "a".
NoMarkerInsideAnchor ==
    \A m \in Range(inserted) :
        \A a \in Ancestors(tree, m) : localname(tree[a]) # "a"

\* C3 witness: a marker was inserted into a document in which an anchor
\* holds a run that reaches the interval.
MarkerInsertedBesideAnchor ==
    /\ Finished("ADD")
    /\ inserted # <<>>
    /\ \E a \in InTree(tree) :
          /\ localname(tree[a]) = "a"
          /\ \E n \in InTree(tree) :
                /\ a \in {n} \cup Ancestors(tree, n)
                /\ count_words(tree[n].text) >= interval

\* C4: the k-th marker inserted carries the documented id of value base + k
\* in the scheme of the first marker, and the next value is base + k + 1.
InsertedNumberedFromBase ==
    pc \in {"walk", "done"} /\ outcome \in {"NONE", "ADD"} =>
        /\ \A k \in 1..Len(inserted) :
              tree[inserted[k]].id = DocumentedId(is_roman, base + k)
        /\ page_index = base + Len(inserted) + 1

\* C4 witness: two markers were inserted in the roman scheme.
TwoRomanMarkersInserted ==
    /\ Finished("ADD")
    /\ is_roman
    /\ Len(inserted) >= 2

\* C5: a first marker whose id is the roman form written by make_span for a
\* value 1..15 is accepted as Continue mode, roman scheme, with that value
\* as base.
RomanWireFormAccepted ==
    \A v \in 1..15 :
        (pc # "scan" /\ first # NoNode /\ input[first].id = make_span(TRUE, v).id) =>
            /\ outcome # "ERROR_NUMERAL"
            /\ is_roman
            /\ base = v

\* the case of C6: interval 200, no anchors, and the only run of the
\* document is 400 words, the text of the body or of an element inside it
SingleRunOf400 ==
    /\ Finished("ADD")
    /\ interval = DefaultInterval
    /\ \A n \in InTree(input) : localname(input[n]) # "a"
    /\ \E n \in Range(iter(tree, body)) :
          /\ RunsOf(input, InTree(input), 1) = {<<n, "text">>}
          /\ count_words(input[n].text) = 2 * DefaultInterval

\* C6 as stated: in the single-run case exactly two markers are inserted.
SingleRunGetsTwoMarkers ==
    SingleRunOf400 => Len(inserted) = 2

\* C6 amended: in the single-run case exactly one marker is inserted, as an
\* element of its own, and the run is written whole.
SingleRunGetsOneMarker ==
    SingleRunOf400 =>
        /\ Len(inserted) = 1
        /\ inserted[1] \in InTree(tree)
        /\ \E i \in 1..Len(file) : file[i] = TextTok(Words(2 * DefaultInterval))

\* C6 witness: the single-run case with its marker placed.
SingleRunPlaced ==
    SingleRunOf400 /\ inserted # <<>>

\* C7: unless process_file finished a strip or a placement pass, the file
\* on disk is the file that was read.
FileWrittenOnlyOnSuccess ==
    ~(Finished("STRIP") \/ Finished("ADD")) => file = write(input)

\* C7 witness: no body was found after other markers had been removed from
\* the tree in memory.
MissingBodyAfterRemoval ==
    /\ Finished("ERROR_BODY")
    /\ tree # input

\* C8: at the end of the walk every run of the body subtree outside all
\* anchors was counted exactly once, and every run inside an anchor never.
RunsOutsideAnchorsCountedOnce ==
    Finished("ADD") =>
        \A r \in RunsOf(tree, Range(iter(tree, body)), body) :
            TimesCounted(r) = IF OutsideAnchors(tree, r) THEN 1 ELSE 0

\* C9: no marker inserted by the placement loop is a child of a list
\* container.
NoMarkerChildOfList ==
    \A m \in Range(inserted) :
        tree[m].parent # NoNode =>
            localname(tree[tree[m].parent]) \notin ListContainers

\* C10: in document order the markers inserted by the run appear in the
\* order of their values.
InsertedInDocumentOrder ==
    Finished("ADD") =>
        LET IsNew(n) == n \in Range(inserted)
            order == SelectSeq(iter(tree, 1), IsNew)
            ValueOf(n) == base + (CHOOSE k \in 1..Len(inserted) : inserted[k] = n)
        IN  \A i, j \in 1..Len(order) :
                i < j => ValueOf(order[i]) < ValueOf(order[j])

=============================================================================
